---- MODULE Spec2Model ----
(***************************************************************************)
(* Model of Examples/Example/main/main.c: the configuration-driven         *)
(* calculator example.  The build configuration (the CONFIG_* macros) is   *)
(* fixed before the program starts; main prints its banners and, when      *)
(* CONFIG_CALCULATION is defined, calls calc(73, 37).                      *)
(*                                                                         *)
(* A macro is either not defined (Undef) or defined with the value 0 or 1. *)
(* The preprocessor tests of calc (#if defined, #ifdef) see only whether a *)
(* macro is defined; the C conditions of main (if (CONFIG_ADDITION)) see   *)
(* its value, and need the macro to be defined for main.c to compile.      *)
(* out is the sequence of the texts written by the printf calls, each text *)
(* exactly as written (a trailing newline is part of the text); Lines(out) *)
(* is what stdout shows line by line.  An int has 32 bits.                 *)
(***************************************************************************)
EXTENDS Integers, Sequences, FiniteSets, TLC

VARIABLES cfg, pc, out, caller, operand1, operand2, result, op, calcCalls, exitCode,
          prev

vars == <<cfg, pc, out, caller, operand1, operand2, result, op, calcCalls, exitCode,
          prev>>

(* ---------------------------------------------------------------- bounds *)

\* calc is also exercised directly on operands -MaxOperand..MaxOperand
MaxOperand == 2

(* ------------------------------------------------------- configuration *)

Undef == "undef"

\* a macro is not defined, or defined with the replacement text 0 or 1
MacroValue == {Undef, "0", "1"}

\* defined(X), #ifdef X
Defined(v) == v # Undef

\* a defined macro used as a C condition: if (X)
Truthy(v) == v # Undef /\ v # "0"

\* which arm of calc's #if / #elif chain the preprocessor keeps
CalcBranch(c) ==
  IF Defined(c.ADDITION) THEN "add"
  ELSE IF Defined(c.SUBTRACTION) THEN "sub"
  ELSE "none"

\* main.c compiles: the identifiers main tests must be macros, and calc's
\* result and op must be declared by one arm of the #if chain
Compiles(c) ==
  /\ Defined(c.ADDITION)
  /\ Defined(c.SUBSTRACTION)
  /\ CalcBranch(c) # "none"

Configs ==
  { c \in [ADDITION : MacroValue, SUBTRACTION : MacroValue,
           SUBSTRACTION : MacroValue, DEBUG : MacroValue,
           CALCULATION : MacroValue] : Compiles(c) }

(* ------------------------------------------------------------ utility.h *)

\* the greatest value of an int
INT_MAX == 2147483647

INT_MIN == -INT_MAX - 1

\* a + b is not a value of int
AddOverflows(a, b) ==
  \/ b > 0 /\ a > INT_MAX - b
  \/ b < 0 /\ a < INT_MIN - b

\* int add(int, int): the sum, reduced modulo 2^32 into the range of int
\* where it overflows, computed without leaving that range
add(a, b) ==
  IF b > 0 /\ a > INT_MAX - b THEN (a - INT_MAX - 1) + (b - INT_MAX - 1)
  ELSE IF b < 0 /\ a < INT_MIN - b THEN (a + INT_MAX + 1) + (b + INT_MAX + 1)
  ELSE a + b

\* int sub(int, int), reduced in the same way
sub(a, b) ==
  IF b = INT_MIN
    THEN (IF a < 0 THEN a + INT_MAX + 1 ELSE (a - INT_MAX) - 1)
    ELSE add(a, -b)

\* the debug banner of main: the line that names the mode
MODE(c) ==
  IF Truthy(c.ADDITION) THEN "Addition\n"
  ELSE IF Truthy(c.SUBTRACTION) THEN "Subtraction\n"
  ELSE "None\n"

(* ----------------------------------------------------------------- calc *)

\* printf("%i %c %i = %i\n", operand1, op, operand2, result)
FormatResult(a, o, b, r) ==
  ToString(a) \o " " \o o \o " " \o ToString(b) \o " = " \o ToString(r) \o "\n"

\* the debug text calc writes first
CalcDebugText(c) ==
  IF ~Defined(c.DEBUG) THEN <<>>
  ELSE IF CalcBranch(c) = "add" THEN <<"Addition">>
  ELSE IF CalcBranch(c) = "sub" THEN <<"Substraction">>
  ELSE <<>>

CalcResult(c, a, b) ==
  IF CalcBranch(c) = "add" THEN add(a, b) ELSE sub(a, b)

CalcOp(c) ==
  IF CalcBranch(c) = "add" THEN "+" ELSE "-"

(* ----------------------------------------------------------------- main *)

TitleLine == "Calculation Example\n"

AddingLine == "Adding 37 to 73\n"

SubstractingLine == "Substracting 37 from 73\n"

NoOperationLine == "No operation specified; nothing to calculate\n"

\* the if / else if / else of main
ModeLine(c) ==
  IF Truthy(c.ADDITION) THEN AddingLine
  ELSE IF Truthy(c.SUBSTRACTION) THEN SubstractingLine
  ELSE NoOperationLine

(* -------------------------------------------------------------- actions *)

Operands == (-MaxOperand .. MaxOperand) \cup {73, 37, INT_MAX, INT_MIN}

\* no earlier run of the program
NoRun == [ran |-> FALSE, debug |-> Undef, out |-> <<>>, calcCalls |-> 0,
          result |-> 0, op |-> "", exitCode |-> -1]

InitCommon ==
  /\ cfg \in Configs
  /\ out = <<>>
  /\ result = 0
  /\ op = ""
  /\ exitCode = -1
  /\ prev = NoRun

\* the program: main is entered
Init ==
  /\ InitCommon
  /\ pc = "main_debug"
  /\ caller = "main"
  /\ operand1 = 0
  /\ operand2 = 0
  /\ calcCalls = 0

\* calc called directly with any operands
InitCalc ==
  /\ InitCommon
  /\ pc = "calc_debug"
  /\ caller = "direct"
  /\ operand1 \in Operands
  /\ operand2 \in Operands
  /\ calcCalls = 1

\* the printf of the banner left out
MainDebug_NoBanner ==
  /\ pc = "main_debug"
  /\ out' = out
  /\ pc' = "main_title"
  /\ UNCHANGED <<cfg, caller, operand1, operand2, result, op, calcCalls, exitCode, prev>>

\* #ifndef in place of #ifdef
MainDebug_Ifndef ==
  /\ pc = "main_debug"
  /\ out' = IF ~Defined(cfg.DEBUG) THEN Append(out, MODE(cfg)) ELSE out
  /\ pc' = "main_title"
  /\ UNCHANGED <<cfg, caller, operand1, operand2, result, op, calcCalls, exitCode, prev>>

MainDebug ==
  /\ pc = "main_debug"
  /\ out' = IF Defined(cfg.DEBUG) THEN Append(out, MODE(cfg)) ELSE out
  /\ pc' = "main_title"
  /\ UNCHANGED <<cfg, caller, operand1, operand2, result, op, calcCalls, exitCode, prev>>

MainTitle ==
  /\ pc = "main_title"
  /\ out' = Append(out, TitleLine)
  /\ pc' = "main_mode"
  /\ UNCHANGED <<cfg, caller, operand1, operand2, result, op, calcCalls, exitCode, prev>>

MainMode ==
  /\ pc = "main_mode"
  /\ out' = Append(out, ModeLine(cfg))
  /\ pc' = "main_calc"
  /\ UNCHANGED <<cfg, caller, operand1, operand2, result, op, calcCalls, exitCode, prev>>

\* #ifndef in place of #ifdef
MainCalc_Ifndef ==
  /\ pc = "main_calc"
  /\ IF ~Defined(cfg.CALCULATION)
       THEN /\ operand1' = 73
            /\ operand2' = 37
            /\ calcCalls' = calcCalls + 1
            /\ pc' = "calc_debug"
       ELSE /\ pc' = "main_return"
            /\ UNCHANGED <<operand1, operand2, calcCalls>>
  /\ UNCHANGED <<cfg, out, caller, result, op, exitCode, prev>>

MainCalc ==
  /\ pc = "main_calc"
  /\ IF Defined(cfg.CALCULATION)
       THEN /\ operand1' = 73
            /\ operand2' = 37
            /\ calcCalls' = calcCalls + 1
            /\ pc' = "calc_debug"
       ELSE /\ pc' = "main_return"
            /\ UNCHANGED <<operand1, operand2, calcCalls>>
  /\ UNCHANGED <<cfg, out, caller, result, op, exitCode, prev>>

CalcDebug ==
  /\ pc = "calc_debug"
  /\ out' = out \o CalcDebugText(cfg)
  /\ pc' = "calc_compute"
  /\ UNCHANGED <<cfg, caller, operand1, operand2, result, op, calcCalls, exitCode, prev>>

CalcCompute ==
  /\ pc = "calc_compute"
  /\ result' = CalcResult(cfg, operand1, operand2)
  /\ op' = CalcOp(cfg)
  /\ pc' = "calc_emit"
  /\ UNCHANGED <<cfg, out, caller, operand1, operand2, calcCalls, exitCode, prev>>

CalcEmit ==
  /\ pc = "calc_emit"
  /\ out' = Append(out, FormatResult(operand1, op, operand2, result))
  /\ pc' = IF caller = "main" THEN "main_return" ELSE "calc_returned"
  /\ UNCHANGED <<cfg, caller, operand1, operand2, result, op, calcCalls, exitCode, prev>>

\* return 1 in place of return 0
MainReturn_One ==
  /\ pc = "main_return"
  /\ exitCode' = 1
  /\ pc' = "done"
  /\ UNCHANGED <<cfg, out, caller, operand1, operand2, result, op, calcCalls, prev>>

MainReturn ==
  /\ pc = "main_return"
  /\ exitCode' = 0
  /\ pc' = "done"
  /\ UNCHANGED <<cfg, out, caller, operand1, operand2, result, op, calcCalls, prev>>

Next ==
  \/ MainDebug
  \/ MainTitle
  \/ MainMode
  \/ MainCalc
  \/ CalcDebug
  \/ CalcCompute
  \/ CalcEmit
  \/ MainReturn

Spec == Init /\ [][Next]_vars

\* the program runs without interruption until main returns
FairSpec == Spec /\ WF_vars(Next)

\* the program, and calc called directly on any operands
AllSpec == (Init \/ InitCalc) /\ [][Next]_vars

(* ------------------------------------------------------- a second run *)

\* the finished program is built again with CONFIG_DEBUG defined where it
\* was not, or not defined where it was, and started again; the first run
\* is kept in prev
Rerun ==
  /\ pc = "done"
  /\ caller = "main"
  /\ ~prev.ran
  /\ prev' = [ran |-> TRUE, debug |-> cfg.DEBUG, out |-> out,
               calcCalls |-> calcCalls, result |-> result, op |-> op,
               exitCode |-> exitCode]
  /\ \E d \in MacroValue :
       /\ Defined(d) # Defined(cfg.DEBUG)
       /\ cfg' = [cfg EXCEPT !.DEBUG = d]
  /\ pc' = "main_debug"
  /\ out' = <<>>
  /\ operand1' = 0
  /\ operand2' = 0
  /\ result' = 0
  /\ op' = ""
  /\ calcCalls' = 0
  /\ exitCode' = -1
  /\ UNCHANGED caller

NextTwin ==
  \/ Next
  \/ Rerun

\* two runs of the program that differ only in CONFIG_DEBUG
TwinSpec == Init /\ [][NextTwin]_vars

(* --------------------------------------------------------- stdout lines *)

\* the texts written without a newline at their end
NoNewlineTexts == {"Addition", "Substraction"}

RECURSIVE JoinLines(_, _, _)
JoinLines(s, i, acc) ==
  IF i > Len(s) THEN (IF acc = "" THEN <<>> ELSE <<acc>>)
  ELSE IF s[i] \in NoNewlineTexts THEN JoinLines(s, i + 1, acc \o s[i])
  ELSE <<acc \o s[i]>> \o JoinLines(s, i + 1, "")

\* the lines of stdout: a text without a newline begins the line that the
\* next text continues
Lines(s) == JoinLines(s, 1, "")

(* --------------------------------------------------- notions of the spec *)

\* a flag is enabled when its macro is defined with a non-zero value
Enabled(v) == Truthy(v)

\* the operation mode the flags select.  Subtraction is taken in the case
\* most favourable to the claims, where both spellings of the flag
\* (SUBTRACTION in calc, SUBSTRACTION in main) are enabled, and None where
\* both are not.
AdditionMode == Enabled(cfg.ADDITION)

SubtractionMode ==
  /\ ~Enabled(cfg.ADDITION)
  /\ Enabled(cfg.SUBTRACTION)
  /\ Enabled(cfg.SUBSTRACTION)

NoneMode ==
  /\ ~Enabled(cfg.ADDITION)
  /\ ~Enabled(cfg.SUBTRACTION)
  /\ ~Enabled(cfg.SUBSTRACTION)

ModeLines == {AddingLine, SubstractingLine, NoOperationLine}

OperationNames == {"Addition", "Substraction"}

\* the debug banners of main
ModeBanners == {"Addition\n", "Subtraction\n", "None\n"}

\* the arithmetic texts calc(73, 37) can write
ArithLines == {"73 + 37 = 110\n", "73 - 37 = 36\n"}

Has(s, e) == \E i \in DOMAIN s : s[i] = e

HasAny(s, S) == \E i \in DOMAIN s : s[i] \in S

Last(s) == s[Len(s)]

CalcReturned == calcCalls = 1 /\ pc \in {"main_return", "calc_returned", "done"}

Finished == caller = "main" /\ pc = "done"

(* ------------------------------------------------------------------ C1 *)

\* C1: in Addition mode calc(a, b) computes result a + b with symbol '+',
\* for every pair of operands, and the program run with the calculation gate
\* enabled writes the line "73 + 37 = 110".
C1_AdditionResult ==
  (AdditionMode /\ CalcReturned) =>
     /\ ~AddOverflows(operand1, operand2)
     /\ result = operand1 + operand2
     /\ op = "+"
     /\ caller = "main" => Has(Lines(out), "73 + 37 = 110\n")

(* ------------------------------------------------------------------ C2 *)

\* C2: in Subtraction mode calc computes a - b with symbol '-', and the
\* program writes "Substracting 37 from 73" and then "73 - 37 = 36".
C2_SubtractionResult ==
  (SubtractionMode /\ Finished /\ Defined(cfg.CALCULATION)) =>
     /\ result = operand1 - operand2
     /\ op = "-"
     /\ Has(out, SubstractingLine)
     /\ Last(out) = "73 - 37 = 36\n"

(* ------------------------------------------------------------------ C3 *)

\* C3: in mode None calc is never called and no arithmetic text is written,
\* whatever CALCULATION and DEBUG are; the mode line is the "No operation"
\* line.
C3_NoneNeverCalculates ==
  NoneMode =>
     /\ calcCalls = 0
     /\ ~HasAny(out, ArithLines)
     /\ ~HasAny(out, ModeLines \ {NoOperationLine})

(* ------------------------------------------------------------------ C4 *)

\* the place of a text in the prescribed order of the output
Rank(e) ==
  IF e \in ModeBanners THEN 1
  ELSE IF e = TitleLine THEN 2
  ELSE IF e \in ModeLines THEN 3
  ELSE IF e \in ArithLines THEN 4
  ELSE 0

IsNumbered(e) == e \notin OperationNames

Numbered(s) == SelectSeq(s, IsNumbered)

\* C4: in every run the debug banner (only with Debug), "Calculation
\* Example", exactly one mode line and the arithmetic text (only with the
\* calculation gate) are written in this order, each at most once, and a
\* finished run has written each of those its flags call for.
C4_OutputOrder ==
  LET n == Numbered(out) IN
  /\ \A i \in DOMAIN n : Rank(n[i]) \in 1..4
  /\ \A i, j \in DOMAIN n : i < j => Rank(n[i]) < Rank(n[j])
  /\ HasAny(out, ModeBanners) => (Defined(cfg.DEBUG) /\ Has(out, MODE(cfg)))
  /\ HasAny(out, ArithLines) => Defined(cfg.CALCULATION)
  /\ Finished =>
       /\ Has(out, MODE(cfg)) <=> Defined(cfg.DEBUG)
       /\ Has(out, TitleLine)
       /\ HasAny(out, ModeLines)
       /\ HasAny(out, ArithLines) <=> Defined(cfg.CALCULATION)

C4_Witness ==
  /\ Finished
  /\ Defined(cfg.DEBUG)
  /\ Defined(cfg.CALCULATION)
  /\ Numbered(out) = <<MODE(cfg), TitleLine, NoOperationLine, "73 + 37 = 110\n">>

(* ------------------------------------------------------------------ C5 *)

\* C5: with Debug and mode Addition the line that names the mode,
\* "Addition", is written first, before "Calculation Example" and before
\* "Adding 37 to 73".
C5_ModeNameFirst ==
  (Defined(cfg.DEBUG) /\ AdditionMode) =>
     /\ Has(out, TitleLine) => (Len(out) >= 2 /\ out[1] = "Addition\n" /\ out[2] = TitleLine)
     /\ Has(out, AddingLine) => (Len(out) >= 3 /\ out[3] = AddingLine)
     /\ Finished =>
          /\ Len(Lines(out)) >= 3
          /\ Lines(out)[1] = "Addition\n"
          /\ Lines(out)[2] = TitleLine
          /\ Lines(out)[3] = AddingLine

C5_Witness ==
  /\ Finished
  /\ Defined(cfg.DEBUG)
  /\ AdditionMode
  /\ out[1] = "Addition\n"
  /\ out[3] = AddingLine

(* ------------------------------------------------------------------ C6 *)

\* C6: calc is called, and the arithmetic text written, exactly when
\* CALCULATION is defined; without it the program writes only the banners.
C6_CalculationGate ==
  /\ calcCalls \in {0, 1}
  /\ calcCalls = 1 => Defined(cfg.CALCULATION)
  /\ HasAny(out, ArithLines) => calcCalls = 1
  /\ Finished =>
       /\ calcCalls = 1 <=> Defined(cfg.CALCULATION)
       /\ HasAny(out, ArithLines) <=> Defined(cfg.CALCULATION)
       /\ ~Defined(cfg.CALCULATION) =>
            \A i \in DOMAIN out : out[i] \in {MODE(cfg), TitleLine} \cup ModeLines

C6_Witness ==
  /\ Finished
  /\ ~Defined(cfg.CALCULATION)
  /\ Enabled(cfg.SUBSTRACTION)
  /\ out = <<TitleLine, SubstractingLine>>

(* ------------------------------------------------------------------ C7 *)

\* C7: every run of the program reaches return 0: the exit code is never
\* anything but 0, and main returns in every run.
C7_ExitsZero ==
  /\ [](exitCode \in {-1, 0} /\ (pc = "done" <=> exitCode = 0))
  /\ <>[](pc = "done" /\ exitCode = 0)

C7_Witness ==
  /\ pc = "done"
  /\ exitCode = 0
  /\ cfg.ADDITION = "0"
  /\ cfg.SUBSTRACTION = "0"
  /\ cfg.SUBTRACTION = Undef

(* ------------------------------------------------------------------ C8 *)

\* the mode the written mode line names
BannerModeOf(s) ==
  IF Has(s, AddingLine) THEN "Addition"
  ELSE IF Has(s, SubstractingLine) THEN "Subtraction"
  ELSE "None"

\* the mode the symbol of the calculation names
CalcModeOf(o) ==
  IF o = "+" THEN "Addition"
  ELSE IF o = "-" THEN "Subtraction"
  ELSE "None"

\* C8: one mode is active in a run: the configuration does not change, and
\* the mode the banner step uses is the mode the calculation step uses.
C8_SingleMode ==
  (Finished /\ calcCalls = 1) => BannerModeOf(out) = CalcModeOf(op)

(* ------------------------------------------------------------------ C9 *)

IsNonDiagnosticLine(l) == l \notin ModeBanners

NonDiagLines(s) == SelectSeq(Lines(s), IsNonDiagnosticLine)

\* C9: two runs that differ only in DEBUG write the same non-diagnostic
\* lines ("Calculation Example", the mode line, the arithmetic line),
\* compute the same result and symbol and return the same exit code.
C9_DebugOrthogonal ==
  (Finished /\ prev.ran) =>
     /\ NonDiagLines(out) = NonDiagLines(prev.out)
     /\ calcCalls = prev.calcCalls
     /\ result = prev.result
     /\ op = prev.op
     /\ exitCode = prev.exitCode

(* ----------------------------------------------------------------- C10 *)

\* C10: when a mode line and an arithmetic text are both written they name
\* the same operation.
C10_BannerMatchesCalc ==
  (Finished /\ calcCalls = 1) =>
     /\ Has(out, AddingLine) => Last(out) = "73 + 37 = 110\n"
     /\ Has(out, SubstractingLine) => Last(out) = "73 - 37 = 36\n"

====
